---- MODULE Spec2Model ----
(***************************************************************************)
(* A model of text.py: the shift cipher (shift_encode / encode /           *)
(* maketrans / translate), canonicalisation (words / canonicalize), the    *)
(* Viterbi word segmenter (viterbi_segment), the n-gram models             *)
(* (NgramWordModel, NgramCharModel) and the permutation decoder            *)
(* (PermutationDecoder, PermutationDecoderProblem).                        *)
(*                                                                         *)
(* A Python string is a sequence of one-character strings.  Python         *)
(* sequences are 0-based; where the source indexes a list (best[i],        *)
(* words[i]) the model uses a function on 0..n so that indices read as in  *)
(* the source.                                                             *)
(*                                                                         *)
(* Each component has its own variables, initial states, actions and       *)
(* specification; a component's specification holds the other components   *)
(* idle.                                                                   *)
(***************************************************************************)
EXTENDS Integers, Sequences, FiniteSets, TLC

VARIABLES
    \* shift cipher: shift_encode(shift_encode(text, a), b)
    sh_pc, sh_text, sh_a, sh_b, sh_once, sh_twice,
    \* canonicalize(text)
    cn_pc, cn_text, cn_out,
    \* viterbi_segment(text, P): the vectors best and words, and the result
    vt_pc, vt_text, vt_P, vt_i, vt_best, vt_words, vt_sequence, vt_p,
    \* an NgramWordModel or NgramCharModel, the add_sequence calls made on it
    \* and the calls of add and add_cond_prob made by themselves
    ng_kind, ng_model, ng_calls, ng_direct,
    \* PermutationDecoder.decode: the decoder's P1, the ciphertext given, the
    \* fields decode sets, the search (state objects, frontier, explored set)
    \* and what decode ends with
    pd_pc, pd_P1, pd_input, pd_ciphertext, pd_chardomain,
    pd_heap, pd_made, pd_frontier, pd_explored, pd_expanded, pd_solution,
    pd_outcome, pd_result,
    \* PermutationDecoderProblem: the decoder it reads, a state handed to
    \* goal_test and actions, the number of transitions that led to it, and
    \* the state objects and nodes its expansion makes
    pr_pc, pr_decoder, pr_depth, pr_state, pr_heap, pr_children,
    \* PermutationDecoder.score: the training text, the three models, the
    \* fields score reads, the code given, the trial plaintext and the
    \* probabilities looked up in each model
    sc_pc, sc_training, sc_Pwords, sc_P1, sc_P2, sc_ciphertext, sc_chardomain,
    sc_code, sc_text, sc_word_probs, sc_letter_probs, sc_bigram_probs

shiftVars == <<sh_pc, sh_text, sh_a, sh_b, sh_once, sh_twice>>
canonVars == <<cn_pc, cn_text, cn_out>>
viterbiVars == <<vt_pc, vt_text, vt_P, vt_i, vt_best, vt_words, vt_sequence, vt_p>>
ngramVars == <<ng_kind, ng_model, ng_calls, ng_direct>>
decodeVars ==
    <<pd_pc, pd_P1, pd_input, pd_ciphertext, pd_chardomain,
      pd_heap, pd_made, pd_frontier, pd_explored, pd_expanded, pd_solution,
      pd_outcome, pd_result>>
problemVars == <<pr_pc, pr_decoder, pr_depth, pr_state, pr_heap, pr_children>>
scoreVars ==
    <<sc_pc, sc_training, sc_Pwords, sc_P1, sc_P2, sc_ciphertext, sc_chardomain,
      sc_code, sc_text, sc_word_probs, sc_letter_probs, sc_bigram_probs>>
vars == <<shiftVars, canonVars, viterbiVars, ngramVars, decodeVars, problemVars, scoreVars>>

----------------------------------------------------------------------------
(* Generic helpers. *)

Range(s) == {s[i] : i \in DOMAIN s}

Min(a, b) == IF a <= b THEN a ELSE b

Max(a, b) == IF a >= b THEN a ELSE b

\* All sequences over S of length 0..n.
SeqsUpTo(S, n) == UNION {[1..k -> S] : k \in 0..n}

\* Index of the first occurrence of c in s, 0 when absent (str.find + 1).
IndexOf(s, c) ==
    IF \E i \in DOMAIN s : s[i] = c
    THEN CHOOSE i \in DOMAIN s : s[i] = c /\ \A k \in 1..(i - 1) : s[k] # c
    ELSE 0

----------------------------------------------------------------------------
(* Characters. *)

alphabet ==
    <<"a", "b", "c", "d", "e", "f", "g", "h", "i", "j", "k", "l", "m",
      "n", "o", "p", "q", "r", "s", "t", "u", "v", "w", "x", "y", "z">>

\* alphabet.upper()
ALPHABET ==
    <<"A", "B", "C", "D", "E", "F", "G", "H", "I", "J", "K", "L", "M",
      "N", "O", "P", "Q", "R", "S", "T", "U", "V", "W", "X", "Y", "Z">>

digits == <<"0", "1", "2", "3", "4", "5", "6", "7", "8", "9">>

\* str.upper() and str.lower() on one character (ASCII).
upper_char(c) == IF IndexOf(alphabet, c) # 0 THEN ALPHABET[IndexOf(alphabet, c)] ELSE c

lower_char(c) == IF IndexOf(ALPHABET, c) # 0 THEN alphabet[IndexOf(ALPHABET, c)] ELSE c

upper(s) == [i \in DOMAIN s |-> upper_char(s[i])]

lower(s) == [i \in DOMAIN s |-> lower_char(s[i])]

----------------------------------------------------------------------------
(* Python slicing s[n:] and s[:n]: a negative index counts from the end,   *)
(* and an index outside the string is clamped to it.                       *)

slice_index(n, len) == IF n < 0 THEN Max(n + len, 0) ELSE Min(n, len)

slice_from(s, n) == SubSeq(s, slice_index(n, Len(s)) + 1, Len(s))

slice_to(s, n) == SubSeq(s, 1, slice_index(n, Len(s)))

----------------------------------------------------------------------------
(* Encoding. *)

\* translate(plaintext, function): function applied to every character
\* (function is given on the characters of plaintext).
translate(plaintext, function) ==
    [i \in DOMAIN plaintext |-> function[plaintext[i]]]

\* maketrans(from_, to_): the table; a later pair overwrites an earlier one.
maketrans(from_, to_) ==
    [c \in Range(from_) |->
        to_[CHOOSE n \in DOMAIN from_ :
                from_[n] = c /\ \A m \in (n + 1)..Len(from_) : from_[m] # c]]

\* trans_table.get(char, char)
table_get(trans_table, char) ==
    IF char \in DOMAIN trans_table THEN trans_table[char] ELSE char

encode(plaintext, code) ==
    LET trans_table == maketrans(alphabet \o upper(alphabet), code \o upper(code))
        trans == [char \in Range(plaintext) |-> table_get(trans_table, char)]
    IN  translate(plaintext, trans)

shift_encode(plaintext, n) ==
    encode(plaintext, slice_from(alphabet, n) \o slice_to(alphabet, n))

----------------------------------------------------------------------------
(* words and canonicalize. *)

\* One character of the class [a-z0-9].
is_word_char(c) == IndexOf(alphabet, c) # 0 \/ IndexOf(digits, c) # 0

\* reg.findall(s) for the pattern [a-z0-9]+: the maximal runs of word
\* characters, from left to right
run_starts(s) ==
    {i \in DOMAIN s : is_word_char(s[i]) /\ (i = 1 \/ ~is_word_char(s[i - 1]))}

run_end(s, i) ==
    CHOOSE j \in i..Len(s) :
        /\ \A k \in i..j : is_word_char(s[k])
        /\ j = Len(s) \/ ~is_word_char(s[j + 1])

findall(s) ==
    [n \in 1..Cardinality(run_starts(s)) |->
        LET i == CHOOSE x \in run_starts(s) :
                    Cardinality({y \in run_starts(s) : y < x}) = n - 1
        IN  SubSeq(s, i, run_end(s, i))]

\* (the lowered text and the word list are each computed once, as the
\* element of a one-element set)
words(text) ==
    CHOOSE list \in {SubSeq(findall(s), 1, Len(findall(s))) : s \in {lower(text)}} : TRUE

\* sep.join(list)
RECURSIVE join(_, _)
join(sep, list) ==
    IF list = <<>> THEN <<>>
    ELSE IF Len(list) = 1 THEN list[1]
    ELSE list[1] \o sep \o join(sep, Tail(list))

canonicalize(text) ==
    CHOOSE joined \in {join(<<" ">>, list) : list \in {words(text)}} : TRUE

----------------------------------------------------------------------------
(* Probabilities.  The source computes with Python floats; the model uses  *)
(* exact fractions <<numerator, denominator>> (denominator > 0), so it      *)
(* says nothing about rounding or underflow.                               *)

rat_mul(x, y) == <<x[1] * y[1], x[2] * y[2]>>

rat_geq(x, y) == x[1] * y[2] >= y[1] * x[2]

rat_gt(x, y) == x[1] * y[2] > y[1] * x[2]

rat_eq(x, y) == x[1] * y[2] = y[1] * x[2]

rat_one == <<1, 1>>

rat_zero == <<0, 1>>

----------------------------------------------------------------------------
(* ProbabilityModel (CountingProbDist): counts, their total, and the       *)
(* probability given to a symbol never added.                              *)

CountingProbDist(default) == [dictionary |-> <<>>, n_obs |-> 0, default |-> default]

\* add(o): increments o's count and the total
cpd_add(dist, o) ==
    [dist EXCEPT
        !.dictionary =
            IF o \in DOMAIN dist.dictionary
            THEN [dist.dictionary EXCEPT ![o] = @ + 1]
            ELSE [x \in DOMAIN dist.dictionary \cup {o} |->
                    IF x = o THEN 1 ELSE dist.dictionary[x]],
        !.n_obs = @ + 1]

\* the count of o
cpd_count(dist, o) == IF o \in DOMAIN dist.dictionary THEN dist.dictionary[o] ELSE 0

\* P[o]: count/total, or the default for a symbol never added
cpd_prob(dist, o) ==
    IF o \in DOMAIN dist.dictionary THEN <<dist.dictionary[o], dist.n_obs>> ELSE dist.default

\* CountingProbDist(observations, default): every observation added
\* (UnigramWordModel adds nothing to the constructor)
UnigramWordModel(observations, default) ==
    [dictionary |->
        [o \in Range(observations) |->
            Cardinality({i \in DOMAIN observations : observations[i] = o})],
     n_obs |-> Len(observations),
     default |-> default]

----------------------------------------------------------------------------
(* viterbi_segment. *)

\* text[j:i] for 0 <= j <= i <= len(text)
substring(text, j, i) == SubSeq(text, j + 1, i)

\* curr_score = P[w] * best[i - len(w)] with w = text[j:i]
curr_score_last_word_only(text, P, best, i, j) == P[substring(text, j, i)]

curr_score(text, P, best, i, j) ==
    LET w == substring(text, j, i)
    IN  rat_mul(P[w], best[i - Len(w)])

\* the test that lets a candidate replace the recorded one: curr_score >= best[i]
replaces_strictly(curr, recorded) == rat_gt(curr, recorded)

replaces(curr, recorded) == rat_geq(curr, recorded)

\* for j in range(0, i): ...   (bw holds the vectors best and words)
RECURSIVE viterbi_inner(_, _, _, _, _)
viterbi_inner(text, P, bw, i, j) ==
    IF j >= i THEN bw
    ELSE LET w == substring(text, j, i)
             curr == curr_score(text, P, bw.best, i, j)
         IN  viterbi_inner(text, P,
                 IF replaces(curr, bw.best[i])
                 THEN [best |-> [bw.best EXCEPT ![i] = curr],
                       words |-> [bw.words EXCEPT ![i] = w]]
                 ELSE bw,
                 i, j + 1)

\* the vectors before the loops: words = [''] + list(text), best = [1.0] + [0.0] * n
viterbi_start(text) ==
    [best |-> [i \in 0..Len(text) |-> IF i = 0 THEN rat_one ELSE rat_zero],
     words |-> [i \in 0..Len(text) |-> IF i = 0 THEN <<>> ELSE <<text[i]>>]]

\* while i > 0: sequence[0:0] = [words[i]]; i = i - len(words[i])
RECURSIVE viterbi_recover(_, _, _)
viterbi_recover(wordsvec, i, sequence) ==
    IF i > 0
    THEN viterbi_recover(wordsvec, i - Len(wordsvec[i]), <<wordsvec[i]>> \o sequence)
    ELSE sequence

----------------------------------------------------------------------------
(* NgramWordModel and NgramCharModel.  The model object is the inherited   *)
(* distribution over n-tuples (dist) with the fields n and cond_prob.      *)

\* __init__ before its add_sequence call
NgramWordModel(n, default) ==
    [n |-> n, dist |-> CountingProbDist(default), cond_prob |-> <<>>]

\* ngram[:-1]
all_but_last(ngram) == SubSeq(ngram, 1, Len(ngram) - 1)

\* ngram[-1]
last(ngram) == ngram[Len(ngram)]

\* a new prefix gets its distribution but not the observation
add_cond_prob_new_prefix_uncounted(model, ngram) ==
    LET prefix == all_but_last(ngram)
    IN  IF prefix \notin DOMAIN model.cond_prob
        THEN [model EXCEPT !.cond_prob =
                [p \in DOMAIN model.cond_prob \cup {prefix} |->
                    IF p = prefix THEN CountingProbDist(rat_zero) ELSE model.cond_prob[p]]]
        ELSE [model EXCEPT !.cond_prob[prefix] = cpd_add(@, last(ngram))]

add_cond_prob(model, ngram) ==
    LET prefix == all_but_last(ngram)
        created == IF prefix \notin DOMAIN model.cond_prob
                   THEN [p \in DOMAIN model.cond_prob \cup {prefix} |->
                            IF p = prefix THEN CountingProbDist(rat_zero)
                            ELSE model.cond_prob[p]]
                   ELSE model.cond_prob
    IN  [model EXCEPT !.cond_prob = [created EXCEPT ![prefix] = cpd_add(@, last(ngram))]]

\* the inherited add(o): the tuple distribution counts o, cond_prob is not touched
add(model, o) == [model EXCEPT !.dist = cpd_add(@, o)]

\* for i in range(len(words) - n + 1), from i on
RECURSIVE ngram_windows(_, _, _)
ngram_windows(model, ws, i) ==
    IF i >= Len(ws) - model.n + 1 THEN model
    ELSE LET t == SubSeq(ws, i + 1, i + model.n)
             added == add(model, t)
         IN  ngram_windows(add_cond_prob(added, t), ws, i + 1)

\* NgramWordModel.add_sequence
add_sequence(model, ws) == ngram_windows(model, ws, 0)

\* NgramCharModel.add_sequence: super().add_sequence(' ' + word) for every word
RECURSIVE char_add_sequence(_, _)
char_add_sequence(model, ws) ==
    IF ws = <<>> THEN model
    ELSE char_add_sequence(add_sequence(model, <<" ">> \o Head(ws)), Tail(ws))

----------------------------------------------------------------------------
(* PermutationDecoderProblem.  A search state is a mapping (a function     *)
(* from cipher characters to letters).  decoder stands for self.decoder:   *)
(* the fields P1, ciphertext and chardomain.                               *)

\* the values of a mapping
mapping_values(state) == {state[c] : c \in DOMAIN state}

\* state[key] = value on a dict
assign(state, key, value) ==
    [c \in DOMAIN state \cup {key} |-> IF c = key THEN value ELSE state[c]]

\* search_list = [c for c in self.decoder.chardomain if c not in state]
\* (chardomain is a set: the order of the list is not fixed by the source)
search_list_whole_domain(decoder, state) == decoder.chardomain

search_list(decoder, state) == {c \in decoder.chardomain : c \notin DOMAIN state}

\* target_list = [c for c in alphabet if c not in state.values()]
target_list_whole_alphabet(state) == alphabet

target_list(state) ==
    CHOOSE list \in {LET unused(c) == c \notin used
                     IN  SelectSeq(alphabet, unused) :
                        used \in {mapping_values(state)}} : TRUE

\* plainchar = argmax(search_list, key=lambda c: self.decoder.P1[c]): the
\* first element of search_list with the highest P1.  The list's order is a
\* set's iteration order, so any of the highest may be the first.
plainchar_choices_lowest(decoder, state) ==
    {c \in search_list(decoder, state) :
        \A d \in search_list(decoder, state) :
            rat_geq(cpd_prob(decoder.P1, d), cpd_prob(decoder.P1, c))}

plainchar_choices(decoder, state) ==
    {c \in search_list(decoder, state) :
        \A d \in search_list(decoder, state) :
            rat_geq(cpd_prob(decoder.P1, c), cpd_prob(decoder.P1, d))}

\* actions(state), in the order yielded, for the plainchar argmax returned
actions(state, plainchar) ==
    CHOOSE acts \in {[i \in DOMAIN list |-> <<plainchar, list[i]>>] :
                        list \in {target_list(state)}} : TRUE

\* result(state, action) on the state object s of the heap: the heap after
\* the call and the object returned.  The mutation is done on a copy; the
\* copy made from s for the letter action[2] is named Append(s, action[2]),
\* the root state object being <<>>.
result_in_place(heap, s, action) ==
    [heap |-> [heap EXCEPT ![s] = assign(@, action[1], action[2])], id |-> s]

result(heap, s, action) ==
    [heap |-> heap @@ (Append(s, action[2]) :> assign(heap[s], action[1], action[2])),
     id |-> Append(s, action[2])]

\* goal_test(state)
goal_test(decoder, state) ==
    Cardinality(DOMAIN state) >= Cardinality(decoder.chardomain)

----------------------------------------------------------------------------
(* The search engine (best_first_graph_search and its nodes), an external  *)
(* collaborator.  A node is its state object, its parent's state object    *)
(* (NoParent at the root) and its depth.                                   *)

Node(s, parent, depth) == [state |-> s, parent |-> parent, depth |-> depth]

NoParent == <<"none">>

None == [state |-> NoParent, parent |-> NoParent, depth |-> 0]

\* node.expand(problem): a child node per action, from the i-th action on
\* (r ranges over a one-element set so that result is computed once)
RECURSIVE expand(_, _, _, _, _)
expand(heap, node, acts, i, children) ==
    IF i > Len(acts) THEN [heap |-> heap, children |-> children]
    ELSE CHOOSE e \in
            {expand(r.heap, node, acts, i + 1,
                    children \cup {Node(r.id, node.state, node.depth + 1)}) :
                r \in {result(heap, node.state, acts[i])}} : TRUE

\* the children the engine adds to the frontier: those whose state is
\* neither explored nor already in the frontier
new_children(heap, children, frontier, explored) ==
    {ch \in children :
        /\ heap[ch.state] \notin explored
        /\ \A f \in frontier : heap[f.state] # heap[ch.state]}

----------------------------------------------------------------------------
(* Bounds. *)

\* shift_encode is applied with every n in -(26 + MaxShiftExcess) .. 26 + MaxShiftExcess
MaxShiftExcess == 2

\* length of the texts given to shift_encode
MaxShiftLen == 1

\* length of the texts given to canonicalize
MaxCanonLen == 4

\* length of the texts given to viterbi_segment
MaxSegLen == 3

\* the n of the n-gram models is 2..MaxN
MaxN == 3

\* number of tokens given to one NgramWordModel.add_sequence call
MaxTokens == 4

\* number of add_sequence calls on one model
MaxCalls == 2

\* the engine's choice of a node to expand is explored among the children
\* built from the first MaxSiblings actions of their parent
MaxSiblings == 2

\* nodes at depth MaxDepth or below are not expanded (no domain of
\* DomainSizes has more characters, so that every search of theirs is
\* explored to its end)
MaxDepth == 2

\* goal_test, actions and result are applied to the states the search
\* reaches with at most MaxFree letters of the alphabet still unused
MaxFree == 2

\* length of the ciphertexts score is called on
MaxScoreLen == 3

----------------------------------------------------------------------------
(* Component: shift cipher. *)

ShiftChars == {"a", "z", "Q", " "}

ShiftRange == (0 - (Len(alphabet) + MaxShiftExcess))..(Len(alphabet) + MaxShiftExcess)

ShiftIdle ==
    /\ sh_pc = "idle"
    /\ sh_text = <<>>
    /\ sh_a = 0
    /\ sh_b = 0
    /\ sh_once = <<>>
    /\ sh_twice = <<>>

ShiftInit ==
    /\ sh_pc = "start"
    /\ sh_text \in SeqsUpTo(ShiftChars, MaxShiftLen)
    /\ sh_a \in ShiftRange
    /\ sh_b \in ShiftRange
    /\ sh_once = <<>>
    /\ sh_twice = <<>>

\* once = shift_encode(text, a)
ShiftEncodeOnce ==
    /\ sh_pc = "start"
    /\ sh_once' = shift_encode(sh_text, sh_a)
    /\ sh_pc' = "once"
    /\ UNCHANGED <<sh_text, sh_a, sh_b, sh_twice>>

\* twice = shift_encode(once, b)
ShiftEncodeTwice ==
    /\ sh_pc = "once"
    /\ sh_twice' = shift_encode(sh_once, sh_b)
    /\ sh_pc' = "done"
    /\ UNCHANGED <<sh_text, sh_a, sh_b, sh_once>>

----------------------------------------------------------------------------
(* Component: canonicalize. *)

CanonChars == {"a", "B", "1", " ", "!"}

CanonIdle ==
    /\ cn_pc = "idle"
    /\ cn_text = <<>>
    /\ cn_out = <<>>

CanonInit ==
    /\ cn_pc = "start"
    /\ cn_text \in SeqsUpTo(CanonChars, MaxCanonLen)
    /\ cn_out = <<>>

Canonicalize ==
    /\ cn_pc = "start"
    /\ cn_out' = canonicalize(cn_text)
    /\ cn_pc' = "done"
    /\ UNCHANGED cn_text

----------------------------------------------------------------------------
(* Component: viterbi_segment. *)

SegChars == {"a", "b"}

\* the probabilities a word model gives the substrings of the text
ProbValues == {<<0, 2>>, <<1, 2>>, <<2, 2>>}

Substrings(text) == {substring(text, j, i) : j \in 0..Len(text), i \in 0..Len(text)} \ {<<>>}

\* the model trained on it / was / the / best / of / times, and the text itwasthebest
TrainedWords ==
    << <<"i", "t">>, <<"w", "a", "s">>, <<"t", "h", "e">>, <<"b", "e", "s", "t">>,
       <<"o", "f">>, <<"t", "i", "m", "e", "s">> >>

TrainedText == <<"i", "t", "w", "a", "s", "t", "h", "e", "b", "e", "s", "t">>

TrainedP ==
    [w \in Substrings(TrainedText) |-> cpd_prob(UnigramWordModel(TrainedWords, rat_zero), w)]

ViterbiIdle ==
    /\ vt_pc = "idle"
    /\ vt_text = <<>>
    /\ vt_P = <<>>
    /\ vt_i = 0
    /\ vt_best = <<>>
    /\ vt_words = <<>>
    /\ vt_sequence = <<>>
    /\ vt_p = rat_zero

\* viterbi_segment is entered: the vectors are built
ViterbiInit ==
    /\ vt_pc = "fill"
    /\ \/ /\ vt_text \in SeqsUpTo(SegChars, MaxSegLen)
          /\ vt_P \in [Substrings(vt_text) -> ProbValues]
       \/ /\ vt_text = TrainedText
          /\ vt_P = TrainedP
    /\ vt_i = 0
    /\ vt_best = viterbi_start(vt_text).best
    /\ vt_words = viterbi_start(vt_text).words
    /\ vt_sequence = <<>>
    /\ vt_p = rat_zero

\* one round of "for i in range(n+1)": the whole inner loop over j
ViterbiFill ==
    /\ vt_pc = "fill"
    /\ vt_i <= Len(vt_text)
    /\ LET bw == viterbi_inner(vt_text, vt_P, [best |-> vt_best, words |-> vt_words], vt_i, 0)
       IN  /\ vt_best' = bw.best
           /\ vt_words' = bw.words
    /\ vt_i' = vt_i + 1
    /\ UNCHANGED <<vt_pc, vt_text, vt_P, vt_sequence, vt_p>>

\* the loops are over: recover the sequence and return (sequence, best[-1])
ViterbiReturn ==
    /\ vt_pc = "fill"
    /\ vt_i > Len(vt_text)
    /\ vt_sequence' = viterbi_recover(vt_words, Len(vt_text), <<>>)
    /\ vt_p' = vt_best[Len(vt_text)]
    /\ vt_pc' = "done"
    /\ UNCHANGED <<vt_text, vt_P, vt_i, vt_best, vt_words>>



----------------------------------------------------------------------------
(* Component: n-gram models. *)

Tokens == {"a", "b"}

\* what NgramCharModel.add_sequence is given: up to two words of up to two letters
CharWordLists == SeqsUpTo(SeqsUpTo(Tokens, 2), 2)

\* the tuples a caller hands to add and add_cond_prob: n tokens
NgramTuples(n) == {t \in SeqsUpTo(Tokens, n) : Len(t) = n}

NgramIdle ==
    /\ ng_kind = "idle"
    /\ ng_model = <<>>
    /\ ng_calls = 0
    /\ ng_direct = 0

\* a model constructed without observations
NgramInit ==
    /\ ng_kind \in {"word", "char"}
    /\ \E n \in 2..MaxN : ng_model = NgramWordModel(n, rat_zero)
    /\ ng_calls = 0
    /\ ng_direct = 0

NgramWordAddSequence ==
    /\ ng_kind = "word"
    /\ ng_calls + ng_direct < MaxCalls
    /\ \E ws \in SeqsUpTo(Tokens, MaxTokens) : ng_model' = add_sequence(ng_model, ws)
    /\ ng_calls' = ng_calls + 1
    /\ UNCHANGED <<ng_kind, ng_direct>>

NgramCharAddSequence ==
    /\ ng_kind = "char"
    /\ ng_calls + ng_direct < MaxCalls
    /\ \E ws \in CharWordLists : ng_model' = char_add_sequence(ng_model, ws)
    /\ ng_calls' = ng_calls + 1
    /\ UNCHANGED <<ng_kind, ng_direct>>

\* a caller's own m.add(t), on either kind of model (ng_direct counts the calls
\* made past add_sequence)
NgramAdd ==
    /\ ng_kind \in {"word", "char"}
    /\ ng_calls + ng_direct < MaxCalls
    /\ \E t \in NgramTuples(ng_model.n) : ng_model' = add(ng_model, t)
    /\ ng_direct' = ng_direct + 1
    /\ UNCHANGED <<ng_kind, ng_calls>>

\* a caller's own m.add_cond_prob(t)
NgramAddCondProb ==
    /\ ng_kind \in {"word", "char"}
    /\ ng_calls + ng_direct < MaxCalls
    /\ \E t \in NgramTuples(ng_model.n) : ng_model' = add_cond_prob(ng_model, t)
    /\ ng_direct' = ng_direct + 1
    /\ UNCHANGED <<ng_kind, ng_calls>>

----------------------------------------------------------------------------
(* Component: PermutationDecoder.decode. *)

\* the characters a ciphertext's domain is drawn from, in order
Pools == {alphabet \o <<"0">>, <<"7">> \o alphabet}

\* a ciphertext whose domain is the first d characters of pool
CipherOf(pool, d) ==
    upper(SubSeq(pool, 1, d)) \o <<" ", "!", " ">> \o SubSeq(pool, 1, Min(d, 1))

\* a training text in which a occurs 27 times, b 26 times, ... and 0 once
RECURSIVE Staircase(_, _)
Staircase(pool, j) == IF j = 0 THEN <<>> ELSE Staircase(pool, j - 1) \o SubSeq(pool, 1, j)

TrainingTexts ==
    {Staircase(alphabet \o <<"0">>, Len(alphabet) + 1),
     <<"t", "h", "e", " ", "c", "a", "t">>,
     <<"b", "a", "7">>}

\* the sizes of the domains whose search is explored to its end
DomainSizes == {0, 1, 2}

\* self, as the problem reads it
Decoder == [P1 |-> pd_P1, ciphertext |-> pd_ciphertext, chardomain |-> pd_chardomain]

DecodeIdle ==
    /\ pd_pc = "idle"
    /\ pd_P1 = <<>>
    /\ pd_input = <<>>
    /\ pd_ciphertext = <<>>
    /\ pd_chardomain = {}
    /\ pd_heap = <<>>
    /\ pd_made = <<>>
    /\ pd_frontier = {}
    /\ pd_explored = {}
    /\ pd_expanded = {}
    /\ pd_solution = None
    /\ pd_outcome = "none"
    /\ pd_result = <<>>

\* what decode makes of a ciphertext: self.ciphertext and self.chardomain
decode_fields(P1, ciphertext) ==
    CHOOSE self \in {[P1 |-> P1,
                      ciphertext |-> canon,
                      chardomain |-> {c \in Range(canon) : c # " "}] :
                        canon \in {canonicalize(ciphertext)}} : TRUE

\* a decoder constructed on a training text (P1 = UnigramWordModel(training_text)),
\* and decode called on a ciphertext of one of the sizes
DecodeCalled(sizes) ==
    /\ pd_pc = "start"
    /\ \E training_text \in TrainingTexts :
            pd_P1 = UnigramWordModel(training_text, rat_zero)
    /\ \E pool \in Pools, d \in sizes : pd_input = CipherOf(pool, d)
    /\ pd_ciphertext = <<>>
    /\ pd_chardomain = {}
    /\ pd_heap = <<>>
    /\ pd_made = <<>>
    /\ pd_frontier = {}
    /\ pd_explored = {}
    /\ pd_expanded = {}
    /\ pd_solution = None
    /\ pd_outcome = "none"
    /\ pd_result = <<>>

DecodeInit == DecodeCalled(DomainSizes)

\* decode called on a ciphertext of 27 distinct characters
DecodeLargeInit == DecodeCalled({Len(alphabet) + 1})

\* decode up to the search: self.ciphertext, self.chardomain, the problem
\* (initial = hashabledict(), the empty mapping) and the root node
DecodeBegin ==
    /\ pd_pc = "start"
    /\ \E fields \in {decode_fields(pd_P1, pd_input)} :
            /\ pd_ciphertext' = fields.ciphertext
            /\ pd_chardomain' = fields.chardomain
    /\ pd_heap' = (<<>> :> <<>>)
    /\ pd_made' = (<<>> :> <<>>)
    /\ pd_frontier' = {Node(<<>>, NoParent, 0)}
    /\ pd_pc' = "search"
    /\ UNCHANGED <<pd_P1, pd_input, pd_explored, pd_expanded, pd_solution,
                   pd_outcome, pd_result>>

\* one round of the engine's loop whose node passes the goal test: the
\* engine returns it
SearchReturn ==
    /\ pd_pc = "search"
    /\ \E node \in pd_frontier :
            /\ goal_test(Decoder, pd_heap[node.state])
            /\ pd_solution' = node
            /\ pd_frontier' = pd_frontier \ {node}
    /\ pd_pc' = "found"
    /\ UNCHANGED <<pd_P1, pd_input, pd_ciphertext, pd_chardomain, pd_heap,
                   pd_made, pd_explored, pd_expanded, pd_outcome, pd_result>>

\* the nodes whose expansion is explored: the root, and the children built
\* from the first MaxSiblings actions of an expanded node, down to the
\* depth MaxDepth - 1
Followed(node) ==
    /\ node.depth < MaxDepth
    /\ node.parent # NoParent =>
            \E i \in 1..Min(MaxSiblings, Len(target_list(pd_made[node.parent]))) :
                last(node.state) = target_list(pd_made[node.parent])[i]

\* one round of the engine's loop whose node fails the goal test: the node
\* is expanded.  The engine takes the frontier node of the best score; the
\* model lets it take any of those it explores.
SearchExpand ==
    /\ pd_pc = "search"
    /\ \E node \in pd_frontier :
            /\ ~goal_test(Decoder, pd_heap[node.state])
            /\ Followed(node)
            /\ \E plainchar \in plainchar_choices(Decoder, pd_heap[node.state]) :
               \E e \in {expand(pd_heap, node,
                                 actions(pd_heap[node.state], plainchar), 1, {})} :
                    /\ pd_heap' = e.heap
                    /\ pd_made' = [o \in DOMAIN e.heap |->
                                        IF o \in DOMAIN pd_made THEN pd_made[o] ELSE e.heap[o]]
                    /\ pd_explored' = pd_explored \cup {pd_heap[node.state]}
                    /\ pd_expanded' = pd_expanded \cup {node}
                    /\ pd_frontier' =
                            (pd_frontier \ {node}) \cup
                            new_children(e.heap, e.children, pd_frontier \ {node},
                                         pd_explored \cup {pd_heap[node.state]})
    /\ UNCHANGED <<pd_pc, pd_P1, pd_input, pd_ciphertext, pd_chardomain,
                   pd_solution, pd_outcome, pd_result>>

\* solution.state[' '] = ' ' and the translation of the ciphertext
DecodeFinish ==
    /\ pd_pc = "found"
    /\ pd_solution # None
    /\ \E heap \in {[pd_heap EXCEPT ![pd_solution.state] = assign(@, " ", " ")]} :
            LET code == [c \in Range(pd_ciphertext) |-> heap[pd_solution.state][c]]
            IN  /\ pd_heap' = heap
                /\ pd_result' = translate(pd_ciphertext, code)
    /\ pd_outcome' = "returned"
    /\ pd_pc' = "done"
    /\ UNCHANGED <<pd_P1, pd_input, pd_ciphertext, pd_chardomain, pd_made,
                   pd_frontier, pd_explored, pd_expanded, pd_solution>>

----------------------------------------------------------------------------
(* Component: PermutationDecoderProblem.  goal_test, actions and result    *)
(* take the state as an argument; here they are applied, as the engine     *)
(* applies them to a node it has popped, to states many transitions away   *)
(* from the empty mapping.                                                 *)

\* the state reached from state by k transitions, taking at each the first
\* action actions(state) yields
RECURSIVE Descend(_, _, _)
Descend(decoder, state, k) ==
    IF k = 0 THEN state
    ELSE LET plainchar == CHOOSE c \in plainchar_choices(decoder, state) : TRUE
             r == result(<<>> :> state, <<>>, actions(state, plainchar)[1])
         IN  Descend(decoder, r.heap[r.id], k - 1)

\* <<transitions taken from the empty mapping, size of the domain>>
ProblemInputs ==
    {kd \in ((Len(alphabet) - MaxFree)..Len(alphabet)) \X
            ((Len(alphabet) - MaxFree)..(Len(alphabet) + 1)) : kd[1] <= kd[2]}

NoDecoder == [P1 |-> <<>>, ciphertext |-> <<>>, chardomain |-> {}]

ProblemIdle ==
    /\ pr_pc = "idle"
    /\ pr_decoder = NoDecoder
    /\ pr_depth = 0
    /\ pr_state = <<>>
    /\ pr_heap = <<>>
    /\ pr_children = {}

\* a problem on a decoder whose decode has set ciphertext and chardomain,
\* and a state of its search
ProblemInit ==
    /\ pr_pc = "given"
    /\ \E training_text \in TrainingTexts, pool \in Pools, kd \in ProblemInputs :
            /\ pr_decoder = decode_fields(UnigramWordModel(training_text, rat_zero),
                                          CipherOf(pool, kd[2]))
            /\ pr_depth = kd[1]
    /\ pr_state = Descend(pr_decoder, <<>>, pr_depth)
    /\ pr_heap = <<>>
    /\ pr_children = {}

\* goal_test(state) holds: the engine returns the node
ProblemGoal ==
    /\ pr_pc = "given"
    /\ goal_test(pr_decoder, pr_state)
    /\ pr_pc' = "goal"
    /\ UNCHANGED <<pr_decoder, pr_depth, pr_state, pr_heap, pr_children>>

\* goal_test(state) fails: the engine expands the node, actions(state) and
\* result(state, action) for every action
ProblemExpand ==
    /\ pr_pc = "given"
    /\ ~goal_test(pr_decoder, pr_state)
    /\ \E plainchar \in plainchar_choices(pr_decoder, pr_state) :
       \E e \in {expand(<<>> :> pr_state, Node(<<>>, NoParent, pr_depth),
                         actions(pr_state, plainchar), 1, {})} :
            /\ pr_heap' = e.heap
            /\ pr_children' = e.children
    /\ pr_pc' = "expanded"
    /\ UNCHANGED <<pr_decoder, pr_depth, pr_state>>

----------------------------------------------------------------------------
(* Component: PermutationDecoder.score.  The source sums logarithms of the *)
(* probabilities it looks up and returns -exp of the sum; the model keeps  *)
(* the probabilities looked up, in the order of the three sums, and not    *)
(* the floating-point result.                                              *)

\* bigrams(text): the slices text[i:i + 2], each a str when text is a str
bigrams(text) == [i \in 1..(Len(text) - 1) |-> SubSeq(text, i, i + 1)]

\* the type of the keys add_sequence adds: t = tuple(words[i:i + n])
ngram_key_type == "tuple"

\* the type of the elements of bigrams(text) for a str text: text[i:i + 2]
bigram_type == "str"

\* P[o] where the keys of P are Python objects of type key_type and o is one
\* of type o_type: a str equals no tuple, so o is then a symbol never added
getitem(dist, key_type, o_type, o) ==
    IF key_type = o_type THEN cpd_prob(dist, o) ELSE dist.default

\* __init__: Pwords over the words, P1 over the characters, and P2, an
\* NgramWordModel(2) over the words, whose keys are tuple(words[i:i + 2])
PermutationDecoder(training_text) ==
    CHOOSE self \in
        {[Pwords |-> UnigramWordModel(ws, rat_zero),
          P1 |-> UnigramWordModel(training_text, rat_zero),
          P2 |-> add_sequence(NgramWordModel(2, rat_zero), ws).dist] :
                ws \in {words(training_text)}} : TRUE

\* score: code.copy(), every character of the domain not in code mapped to
\* itself, and the space to itself
full_code(chardomain, code) ==
    [c \in DOMAIN code \cup chardomain \cup {" "} |->
        IF c = " " THEN " "
        ELSE IF c \in DOMAIN code THEN code[c]
        ELSE c]

ScoreChars == {"a", "b", " "}

\* training texts: letter pairs ab and ba in two words; one-letter words a
\* and b; a single word
ScoreTrainingTexts ==
    {<<"a", "b", " ", "b", "a">>, <<"a", " ", "b">>, <<"a", "b">>}

\* the codes score is called with: the partial mappings of the domain
ScoreCodes(chardomain) ==
    UNION {[keys -> {"a", "b"}] : keys \in SUBSET chardomain}

ScoreIdle ==
    /\ sc_pc = "idle"
    /\ sc_training = <<>>
    /\ sc_Pwords = <<>>
    /\ sc_P1 = <<>>
    /\ sc_P2 = <<>>
    /\ sc_ciphertext = <<>>
    /\ sc_chardomain = {}
    /\ sc_code = <<>>
    /\ sc_text = <<>>
    /\ sc_word_probs = <<>>
    /\ sc_letter_probs = <<>>
    /\ sc_bigram_probs = <<>>

\* a decoder constructed on a training text
ScoreInit ==
    /\ sc_pc = "constructed"
    /\ sc_training \in ScoreTrainingTexts
    /\ \E self \in {PermutationDecoder(sc_training)} :
            /\ sc_Pwords = self.Pwords
            /\ sc_P1 = self.P1
            /\ sc_P2 = self.P2
    /\ sc_ciphertext = <<>>
    /\ sc_chardomain = {}
    /\ sc_code = <<>>
    /\ sc_text = <<>>
    /\ sc_word_probs = <<>>
    /\ sc_letter_probs = <<>>
    /\ sc_bigram_probs = <<>>

\* decode's first lines: self.ciphertext and self.chardomain
ScoreSetCiphertext ==
    /\ sc_pc = "constructed"
    /\ \E ciphertext \in SeqsUpTo(ScoreChars, MaxScoreLen) :
       \E fields \in {decode_fields(sc_P1, ciphertext)} :
            /\ sc_ciphertext' = fields.ciphertext
            /\ sc_chardomain' = fields.chardomain
    /\ sc_pc' = "ready"
    /\ UNCHANGED <<sc_training, sc_Pwords, sc_P1, sc_P2, sc_code, sc_text, sc_word_probs,
                   sc_letter_probs, sc_bigram_probs>>

\* score(code), as the engine calls it on a node's state
Score ==
    /\ sc_pc \in {"ready", "scored"}
    /\ \E code \in ScoreCodes(sc_chardomain) :
       \E text \in {translate(sc_ciphertext, full_code(sc_chardomain, code))} :
            /\ sc_code' = code
            /\ sc_text' = text
            /\ sc_word_probs' =
                    [i \in DOMAIN words(text) |->
                        getitem(sc_Pwords, "str", "str", words(text)[i])]
            /\ sc_letter_probs' =
                    [i \in DOMAIN text |-> getitem(sc_P1, "str", "str", text[i])]
            /\ sc_bigram_probs' =
                    [i \in DOMAIN bigrams(text) |->
                        getitem(sc_P2, ngram_key_type, bigram_type, bigrams(text)[i])]
    /\ sc_pc' = "scored"
    /\ UNCHANGED <<sc_training, sc_Pwords, sc_P1, sc_P2, sc_ciphertext, sc_chardomain>>

----------------------------------------------------------------------------
(* Specifications: one per component, the other components idle. *)

InitShift == ShiftInit /\ CanonIdle /\ ViterbiIdle /\ NgramIdle /\ DecodeIdle /\ ProblemIdle /\ ScoreIdle

NextShift ==
    \/ ShiftEncodeOnce /\ UNCHANGED <<canonVars, viterbiVars, ngramVars, decodeVars, problemVars, scoreVars>>
    \/ ShiftEncodeTwice /\ UNCHANGED <<canonVars, viterbiVars, ngramVars, decodeVars, problemVars, scoreVars>>

SpecShift == InitShift /\ [][NextShift]_vars

InitCanon == CanonInit /\ ShiftIdle /\ ViterbiIdle /\ NgramIdle /\ DecodeIdle /\ ProblemIdle /\ ScoreIdle

NextCanon == Canonicalize /\ UNCHANGED <<shiftVars, viterbiVars, ngramVars, decodeVars, problemVars, scoreVars>>

SpecCanon == InitCanon /\ [][NextCanon]_vars

InitViterbi == ViterbiInit /\ ShiftIdle /\ CanonIdle /\ NgramIdle /\ DecodeIdle /\ ProblemIdle /\ ScoreIdle

NextViterbi ==
    \/ ViterbiFill /\ UNCHANGED <<shiftVars, canonVars, ngramVars, decodeVars, problemVars, scoreVars>>
    \/ ViterbiReturn /\ UNCHANGED <<shiftVars, canonVars, ngramVars, decodeVars, problemVars, scoreVars>>

SpecViterbi == InitViterbi /\ [][NextViterbi]_vars

InitNgram == NgramInit /\ ShiftIdle /\ CanonIdle /\ ViterbiIdle /\ DecodeIdle /\ ProblemIdle /\ ScoreIdle

NextNgram ==
    \/ NgramWordAddSequence /\ UNCHANGED <<shiftVars, canonVars, viterbiVars, decodeVars, problemVars, scoreVars>>
    \/ NgramCharAddSequence /\ UNCHANGED <<shiftVars, canonVars, viterbiVars, decodeVars, problemVars, scoreVars>>
    \/ NgramAdd /\ UNCHANGED <<shiftVars, canonVars, viterbiVars, decodeVars, problemVars, scoreVars>>
    \/ NgramAddCondProb /\ UNCHANGED <<shiftVars, canonVars, viterbiVars, decodeVars, problemVars, scoreVars>>

SpecNgram == InitNgram /\ [][NextNgram]_vars

InitDecode ==
    DecodeInit /\ ShiftIdle /\ CanonIdle /\ ViterbiIdle /\ NgramIdle /\ ProblemIdle /\ ScoreIdle

NextDecode ==
    \/ DecodeBegin /\ UNCHANGED <<shiftVars, canonVars, viterbiVars, ngramVars, problemVars, scoreVars>>
    \/ SearchReturn /\ UNCHANGED <<shiftVars, canonVars, viterbiVars, ngramVars, problemVars, scoreVars>>
    \/ SearchExpand /\ UNCHANGED <<shiftVars, canonVars, viterbiVars, ngramVars, problemVars, scoreVars>>
    \/ DecodeFinish /\ UNCHANGED <<shiftVars, canonVars, viterbiVars, ngramVars, problemVars, scoreVars>>

SpecDecode == InitDecode /\ [][NextDecode]_vars

\* decode on a domain larger than the alphabet: the search finds no goal
\* among the nodes explored
InitDecodeLarge ==
    DecodeLargeInit /\ ShiftIdle /\ CanonIdle /\ ViterbiIdle /\ NgramIdle /\ ProblemIdle /\ ScoreIdle

NextDecodeLarge ==
    \/ DecodeBegin /\ UNCHANGED <<shiftVars, canonVars, viterbiVars, ngramVars, problemVars, scoreVars>>
    \/ SearchExpand /\ UNCHANGED <<shiftVars, canonVars, viterbiVars, ngramVars, problemVars, scoreVars>>

SpecDecodeLarge == InitDecodeLarge /\ [][NextDecodeLarge]_vars

InitProblem ==
    ProblemInit /\ ShiftIdle /\ CanonIdle /\ ViterbiIdle /\ NgramIdle /\ DecodeIdle /\ ScoreIdle

NextProblem ==
    \/ ProblemGoal /\ UNCHANGED <<shiftVars, canonVars, viterbiVars, ngramVars, decodeVars, scoreVars>>
    \/ ProblemExpand /\ UNCHANGED <<shiftVars, canonVars, viterbiVars, ngramVars, decodeVars, scoreVars>>

SpecProblem == InitProblem /\ [][NextProblem]_vars

\* the search: decode's on the small domains, and the problem's operations
\* on the states far from the empty mapping
InitSearch == InitDecode \/ InitProblem

NextSearch == NextDecode \/ NextProblem

SpecSearch == InitSearch /\ [][NextSearch]_vars

\* the engine's loop and decode keep running
SpecSearchFair == SpecSearch /\ WF_vars(NextSearch)

InitScore == ScoreInit /\ ShiftIdle /\ CanonIdle /\ ViterbiIdle /\ NgramIdle /\ DecodeIdle /\ ProblemIdle

NextScore ==
    \/ ScoreSetCiphertext /\ UNCHANGED <<shiftVars, canonVars, viterbiVars, ngramVars, decodeVars, problemVars>>
    \/ Score /\ UNCHANGED <<shiftVars, canonVars, viterbiVars, ngramVars, decodeVars, problemVars>>

SpecScore == InitScore /\ [][NextScore]_vars

Init ==
    \/ InitShift \/ InitCanon \/ InitViterbi \/ InitNgram
    \/ InitDecode \/ InitDecodeLarge \/ InitProblem \/ InitScore

Next == NextShift \/ NextCanon \/ NextViterbi \/ NextNgram \/ NextDecode \/ NextProblem \/ NextScore

Spec == Init /\ [][Next]_vars

----------------------------------------------------------------------------
(* Segmentation claims. *)

\* the concatenation of a sequence of words
RECURSIVE Concat(_)
Concat(ws) == IF ws = <<>> THEN <<>> ELSE Head(ws) \o Concat(Tail(ws))

\* the product of P[w] over a sequence of words
RECURSIVE ProductOf(_, _)
ProductOf(P, ws) == IF ws = <<>> THEN rat_one ELSE rat_mul(P[Head(ws)], ProductOf(P, Tail(ws)))

\* a split of text is the set of its inner cut positions; its words from start on
RECURSIVE SplitWords(_, _, _)
SplitWords(text, cuts, start) ==
    IF start >= Len(text) THEN <<>>
    ELSE LET next == CHOOSE c \in (cuts \cup {Len(text)}) :
                        /\ c > start
                        /\ \A d \in (cuts \cup {Len(text)}) : d > start => c <= d
         IN  <<substring(text, start, next)>> \o SplitWords(text, cuts, next)

AllSplits(text) == {SplitWords(text, cuts, 0) : cuts \in SUBSET (1..(Len(text) - 1))}

\* the start positions j whose candidate text[j:i] scores exactly best[i]
WinningStarts(i) ==
    {j \in 0..(i - 1) : rat_eq(curr_score(vt_text, vt_P, vt_best, i, j), vt_best[i])}

SetMax(S) == CHOOSE x \in S : \A y \in S : y <= x

SetMin(S) == CHOOSE x \in S : \A y \in S : x <= y

\* the whole text scores exactly as one of its two-word splits, and no split scores more
WholeTiesTwoWords ==
    /\ Len(vt_text) >= 2
    /\ rat_eq(vt_P[vt_text], vt_best[Len(vt_text)])
    /\ \E j \in 1..(Len(vt_text) - 1) :
            rat_eq(vt_P[vt_text],
                   rat_mul(vt_P[substring(vt_text, 0, j)],
                           vt_P[substring(vt_text, j, Len(vt_text))]))

(* C1: viterbi_segment(text, P) returns (sequence, p) where the words of   *)
(* sequence are non-empty and concatenate to text, p is the product of     *)
(* P[w] over the returned words, and p is the maximum of that product over *)
(* all splits of text into non-empty words; the model trained on it, was,  *)
(* the, best, of, times segments itwasthebest into it, was, the, best.     *)
C1_ViterbiBestSplit ==
    vt_pc = "done" =>
        /\ \A k \in DOMAIN vt_sequence : vt_sequence[k] # <<>>
        /\ Concat(vt_sequence) = vt_text
        /\ rat_eq(vt_p, ProductOf(vt_P, vt_sequence))
        /\ \A ws \in AllSplits(vt_text) : rat_geq(vt_p, ProductOf(vt_P, ws))
        /\ (vt_text = TrainedText /\ vt_P = TrainedP) =>
                vt_sequence = SubSeq(TrainedWords, 1, 4)

\* a text of at least two words is returned, with a positive probability
\* that beats another split of positive probability
C1_Witness ==
    /\ vt_pc = "done"
    /\ Len(vt_sequence) >= 2
    /\ \E ws \in AllSplits(vt_text) :
            /\ rat_gt(ProductOf(vt_P, ws), rat_zero)
            /\ rat_gt(vt_p, ProductOf(vt_P, ws))

(* C2 as stated: when two candidate last words for an end position i score *)
(* the same, the longer word is the one recorded; when the single-token    *)
(* split and a two-word split of the whole text score identically, the     *)
(* single token is returned.                                               *)
C2_TieLongerWord ==
    vt_pc = "done" =>
        /\ \A i \in 1..Len(vt_text) :
                vt_words[i] = substring(vt_text, SetMin(WinningStarts(i)), i)
        /\ WholeTiesTwoWords => vt_sequence = <<vt_text>>

(* C2 as amended: when two candidate last words for an end position i      *)
(* score the same winning score, the shorter word (the larger start j,     *)
(* tried later) is the one recorded; when the single-token split and a     *)
(* two-word split of the whole text score identically, the returned        *)
(* sequence is not the single token.                                       *)
C2_TieShorterWord ==
    vt_pc = "done" =>
        /\ \A i \in 1..Len(vt_text) :
                vt_words[i] = substring(vt_text, SetMax(WinningStarts(i)), i)
        /\ \A j \in 1..(Len(vt_text) - 1) :
                rat_eq(vt_P[vt_text],
                       rat_mul(vt_P[substring(vt_text, 0, j)],
                               vt_P[substring(vt_text, j, Len(vt_text))]))
                    => vt_sequence # <<vt_text>>

\* the whole text and a two-word split tie at a positive winning score
C2_Witness ==
    /\ vt_pc = "done"
    /\ WholeTiesTwoWords
    /\ rat_gt(vt_p, rat_zero)
    /\ Cardinality(WinningStarts(Len(vt_text))) >= 2

----------------------------------------------------------------------------
(* N-gram claims. *)

\* the n-tuples either table has counted
CountedTuples ==
    DOMAIN ng_model.dist.dictionary \cup
    UNION {{p \o <<x>> : x \in DOMAIN ng_model.cond_prob[p].dictionary} :
            p \in DOMAIN ng_model.cond_prob}

\* the count of t's last token in the conditional distribution of t's prefix
CondCount(t) ==
    IF all_but_last(t) \in DOMAIN ng_model.cond_prob
    THEN cpd_count(ng_model.cond_prob[all_but_last(t)], last(t))
    ELSE 0

(* C9: after any sequence of add_sequence calls on an NgramWordModel or    *)
(* NgramCharModel with n >= 2, the count of every n-tuple t in the tuple   *)
(* distribution equals the count of t[-1] in cond_prob[t[:-1]], and a      *)
(* prefix is a key of cond_prob exactly when a counted n-tuple starts with *)
(* it.  A model on which add or add_cond_prob was also called by itself    *)
(* (ng_direct > 0) is not one the statement is about.                      *)
C9_CondProbMatchesTuples ==
    (ng_kind \in {"word", "char"} /\ ng_direct = 0) =>
        /\ \A t \in CountedTuples : cpd_count(ng_model.dist, t) = CondCount(t)
        /\ DOMAIN ng_model.cond_prob =
                {all_but_last(t) : t \in {u \in DOMAIN ng_model.dist.dictionary :
                                            cpd_count(ng_model.dist, u) > 0}}

\* two calls have counted some tuple twice, under at least two prefixes
C9_Witness ==
    /\ ng_calls = 2
    /\ ng_direct = 0
    /\ Cardinality(DOMAIN ng_model.cond_prob) >= 2
    /\ \E t \in DOMAIN ng_model.dist.dictionary : cpd_count(ng_model.dist, t) >= 2

----------------------------------------------------------------------------
(* Permutation decoder claims. *)

\* no two keys of a mapping share a target
Injective(state) == Cardinality(mapping_values(state)) = Cardinality(DOMAIN state)

\* every node the engine holds or has held
AllNodes ==
    pd_frontier \cup pd_expanded \cup (IF pd_solution = None THEN {} ELSE {pd_solution})

\* every state the search has built, as it was built, with the decoder of
\* its problem and the number of transitions from the empty mapping to it
SearchStates ==
    {[decoder |-> Decoder, state |-> pd_made[node.state], transitions |-> node.depth] :
        node \in AllNodes}
    \cup (IF pr_pc = "idle" THEN {}
          ELSE {[decoder |-> pr_decoder, state |-> pr_state, transitions |-> pr_depth]})
    \cup {[decoder |-> pr_decoder, state |-> pr_heap[ch.state], transitions |-> ch.depth] :
            ch \in pr_children}

\* every transition made: the parent state and the child state, as built
SearchSteps ==
    {[parent |-> pd_made[node.parent], child |-> pd_made[node.state]] :
        node \in {n \in AllNodes : n.parent # NoParent}}
    \cup {[parent |-> pr_state, child |-> pr_heap[ch.state]] : ch \in pr_children}

\* the mapping decode translates the ciphertext with
FinalMapping == pd_heap[pd_solution.state]

(* C4 as stated: when decode completes, the mapping it ends with (the      *)
(* winning state as used for the translation) is a bijection whose key set *)
(* is exactly the character domain: no key outside it, none missing, no    *)
(* two keys with the same target.                                          *)
C4_KeysAreDomain ==
    (pd_pc = "done" /\ pd_outcome = "returned") =>
        /\ DOMAIN FinalMapping = pd_chardomain
        /\ Injective(FinalMapping)

(* C4 as amended: when decode completes, the mapping it ends with has as   *)
(* keys exactly the characters of the domain and the space, which decode   *)
(* adds mapped to itself; it maps the domain into the alphabet, and no two *)
(* keys have the same target.                                              *)
C4_KeysAreDomainAndSpace ==
    (pd_pc = "done" /\ pd_outcome = "returned") =>
        /\ DOMAIN FinalMapping = pd_chardomain \cup {" "}
        /\ FinalMapping[" "] = " "
        /\ \A c \in pd_chardomain : FinalMapping[c] \in Range(alphabet)
        /\ Injective(FinalMapping)

\* decode has returned on a domain of two characters, a digit among them,
\* after a search from the empty mapping that expanded two nodes below it
C4_Witness ==
    /\ pd_pc = "done"
    /\ pd_outcome = "returned"
    /\ pd_solution.depth = 2
    /\ Cardinality(pd_expanded) = 3
    /\ Cardinality(pd_chardomain) = 2
    /\ "7" \in pd_chardomain

(* C5: when the domain has more than 26 distinct characters, decode        *)
(* signals UnsupportedDomainError rather than searching on: no node of a   *)
(* search on such a domain is expanded without that outcome.               *)
C5_UnsupportedDomain ==
    (Cardinality(pd_chardomain) > Len(alphabet) /\ pd_expanded # {}) =>
        pd_outcome = "UnsupportedDomainError"

\* the facts of C6 about the states the search has built
C6_SizeGrowsToGoal ==
    /\ \A v \in SearchStates :
            /\ Cardinality(DOMAIN v.state) = v.transitions
            /\ Cardinality(DOMAIN v.state) <= Len(alphabet)
            /\ Cardinality(v.decoder.chardomain) <= Len(alphabet) =>
                    /\ goal_test(v.decoder, v.state) =>
                            v.transitions = Cardinality(v.decoder.chardomain)
                    /\ ~goal_test(v.decoder, v.state) =>
                            \A plainchar \in plainchar_choices(v.decoder, v.state) :
                                actions(v.state, plainchar) # <<>>
    /\ \A step \in SearchSteps :
            Cardinality(DOMAIN step.child) = Cardinality(DOMAIN step.parent) + 1

\* decode has ended, or the problem's operations have been applied
SearchOver == pd_pc = "done" \/ pr_pc \in {"goal", "expanded"}

(* C6: every transition yields a mapping exactly one entry larger, the     *)
(* size never exceeds 26, so every path from the empty mapping is finite   *)
(* and the search stops; when the domain has at most 26 characters a path  *)
(* can be continued until it reaches a goal state, after exactly           *)
(* |chardomain| transitions.                                               *)
C6_SearchTerminates == []C6_SizeGrowsToGoal /\ <>SearchOver

\* the search of decode has stopped at a goal state two transitions from
\* the empty mapping, nodes of both depths still in the frontier
C6_Witness ==
    /\ pd_pc = "done"
    /\ pd_outcome = "returned"
    /\ Cardinality(pd_chardomain) = 2
    /\ Cardinality(DOMAIN pd_made[pd_solution.state]) = 2
    /\ \E node \in pd_frontier : node.depth = 1
    /\ \E node \in pd_frontier : node.depth = 2

\* a state that uses the 26 letters, on a domain of 27 characters, has been
\* expanded: no action, the path ends there
DeadEndReached ==
    /\ pr_pc = "expanded"
    /\ Cardinality(DOMAIN pr_state) = Len(alphabet)
    /\ Cardinality(pr_decoder.chardomain) = Len(alphabet) + 1
    /\ pr_children = {}

(* C8: every state the search builds is a partial injective mapping with   *)
(* keys in the domain and values in the alphabet; a transition adds        *)
(* exactly one new key and changes no value of an existing key; the parent *)
(* state object is left as it was built, also after decode has finished.   *)
C8_StatesInjectiveParentsKept ==
    /\ \A v \in SearchStates :
            /\ DOMAIN v.state \subseteq v.decoder.chardomain
            /\ mapping_values(v.state) \subseteq Range(alphabet)
            /\ Injective(v.state)
    /\ \A step \in SearchSteps :
            /\ DOMAIN step.parent \subseteq DOMAIN step.child
            /\ Cardinality(DOMAIN step.child \ DOMAIN step.parent) = 1
            /\ \A c \in DOMAIN step.parent : step.child[c] = step.parent[c]
    /\ \A node \in AllNodes :
            node.parent # NoParent =>
                /\ node.state # node.parent
                /\ pd_heap[node.parent] = pd_made[node.parent]
    /\ \A ch \in pr_children :
            /\ ch.state # ch.parent
            /\ pr_heap[ch.parent] = pr_state

\* decode has finished and frontier nodes share the winning node's parent
C8_Witness ==
    /\ pd_pc = "done"
    /\ pd_outcome = "returned"
    /\ pd_solution.parent # NoParent
    /\ \E node \in pd_frontier : node.parent = pd_solution.parent

(* C10: for every non-goal state, actions(state) yields one action per     *)
(* letter of the alphabet not used as a target in state (26 minus the      *)
(* number of distinct targets); all actions share one cipher character,    *)
(* which is an unmapped character of the domain of the highest             *)
(* letter-unigram probability among the unmapped ones.                     *)
C10_ActionsPerUnusedLetter ==
    \A v \in SearchStates :
        ~goal_test(v.decoder, v.state) =>
            \A plainchar \in plainchar_choices(v.decoder, v.state) :
                LET acts == actions(v.state, plainchar)
                    unmapped == v.decoder.chardomain \ DOMAIN v.state
                IN  /\ Len(acts) = Len(alphabet) - Cardinality(mapping_values(v.state))
                    /\ {acts[i][2] : i \in DOMAIN acts} =
                            Range(alphabet) \ mapping_values(v.state)
                    /\ \A i \in DOMAIN acts : \A j \in DOMAIN acts :
                            acts[i][2] = acts[j][2] => i = j
                    /\ \A i \in DOMAIN acts : acts[i][1] = plainchar
                    /\ plainchar \in unmapped
                    /\ \A d \in unmapped :
                            rat_geq(cpd_prob(v.decoder.P1, plainchar),
                                    cpd_prob(v.decoder.P1, d))

\* a state with used letters and two unmapped characters of different
\* probability has been expanded
C10_Witness ==
    /\ pr_pc = "expanded"
    /\ Cardinality(mapping_values(pr_state)) > 0
    /\ pr_children # {}
    /\ \E c \in pr_decoder.chardomain \ DOMAIN pr_state :
       \E d \in pr_decoder.chardomain \ DOMAIN pr_state :
            rat_gt(cpd_prob(pr_decoder.P1, c), cpd_prob(pr_decoder.P1, d))

----------------------------------------------------------------------------
(* Cipher and canonicalisation claims. *)

(* C3: for all texts and all integers a and b, shift_encode(shift_encode(  *)
(* text, a), b) equals shift_encode(text, (a + b) mod 26).                  *)
C3_ShiftCompose ==
    sh_pc = "done" => sh_twice = shift_encode(sh_text, (sh_a + sh_b) % 26)

(* C7: canonicalize(text) consists only of lowercase letters a-z and       *)
(* single spaces, with no leading, trailing or doubled space, so the       *)
(* character domain derived from it is a subset of the alphabet.           *)
C7_CanonLettersAndSpaces ==
    cn_pc = "done" =>
        /\ \A i \in DOMAIN cn_out : cn_out[i] = " " \/ cn_out[i] \in Range(alphabet)
        /\ cn_out # <<>> => cn_out[1] # " " /\ cn_out[Len(cn_out)] # " "
        /\ \A i \in 1..(Len(cn_out) - 1) : ~(cn_out[i] = " " /\ cn_out[i + 1] = " ")
        /\ {c \in Range(cn_out) : c # " "} \subseteq Range(alphabet)

----------------------------------------------------------------------------
(* Scorer claims. *)

\* the adjacent letter pairs of a text
LetterPairs(text) ==
    {SubSeq(lower(text), i, i + 1) : i \in 1..(Len(text) - 1)}
        \cap {<<x, y>> : x \in Range(alphabet), y \in Range(alphabet)}

(* C11: the third model of the scorer is a letter-bigram model trained on  *)
(* the adjacent letter pairs of the training text: in score, every         *)
(* adjacent character pair of the trial plaintext that occurs as an        *)
(* adjacent letter pair in the training text is looked up with a positive  *)
(* trained probability.                                                    *)
C11_BigramsLookedUpTrained ==
    sc_pc = "scored" =>
        \A i \in DOMAIN sc_bigram_probs :
            bigrams(sc_text)[i] \in LetterPairs(sc_training) =>
                rat_gt(sc_bigram_probs[i], rat_zero)

====
